---- MODULE Spec2Model ----
(***************************************************************************)
(* Reservation service (app/main.py, app/models.py): an HTTP facade over a *)
(* hosted row store.  The service keeps no state of its own: the state is  *)
(* the backend's reservations table and the requests in flight.  A list or *)
(* cancel request touches the table in one call and is one step; a create  *)
(* request is two steps, the identity call and the insert, and other       *)
(* requests may run between them.                                          *)
(*                                                                         *)
(* JSON values are strings ("null" is JSON null).  Python values: a UUID   *)
(* is its canonical text, a datetime is an integer instant, an Optional    *)
(* field is a set with at most one element ({} is None).                   *)
(***************************************************************************)
EXTENDS Integers, Sequences, FiniteSets, TLC

\* ------------------------------------------------------------- bounds
\* The backend clock stops the model after this many applied writes.
MaxClock == 2

\* The create requests that may be between their two outbound calls at once;
\* list and cancel requests are served while they wait.
Slots == {"s1"}

\* --------------------------------------------------------- input sets
NULL == "null"
BadToken == "not-a-jwt"
Tokens == {"jwt-u1", "jwt-u2", BadToken}
Reasons == {"weather", "sick"}
UuidTexts == {"u1", "u2", "c1", "c2", "r1", "r2", "r3", "r4", "r5", "r6"}
RowIdText == <<"r1", "r2", "r3", "r4", "r5">>
TimeText == <<"T00", "T01", "T02", "T03", "T04", "T05", "T06", "T07", "T08", "T09">>
Instants == 0 .. (Len(TimeText) - 1)
\* A valid ReservationCreate payload: court, start and end all differ, and the
\* end precedes the start (no start < end check is made).
Payloads ==
    { [court_id |-> "c2", starts_at |-> 4, ends_at |-> 3] }
\* Path parameters of cancel: the id of a row present from the start, an id
\* that names no row until an insert creates it, and a text that is no uuid.
ReservationIds == {"r1", "r3", "abc"}

\* -------------------------------------------------------- conversions
\* str(x): a string is itself, None becomes the text "None".
Str(x) == IF x = NULL THEN "None" ELSE x

\* datetime.isoformat()
IsoFormat(t) == TimeText[t + 1]

IsUuidText(s) == s \in UuidTexts

IsDatetimeText(s) == \E t \in Instants : TimeText[t + 1] = s

\* pydantic's datetime parse (defined on IsDatetimeText)
ParseDatetime(s) == CHOOSE t \in Instants : TimeText[t + 1] = s

\* Optional[...] parse: JSON null is None
ParseOptionalDatetime(s) == IF s = NULL THEN {} ELSE {ParseDatetime(s)}

ParseOptionalStr(s) == IF s = NULL THEN {} ELSE {s}

\* ------------------------------------------------------ app/models.py
ReservationFields ==
    {"id", "court_id", "user_id", "starts_at", "ends_at", "total_price",
     "created_at", "cancelled_at", "cancel_reason"}

\* Reservation(**item) raises unless every required field validates.
ReservationValid(item) ==
    /\ IsUuidText(item.id)
    /\ IsUuidText(item.court_id)
    /\ IsUuidText(item.user_id)
    /\ IsDatetimeText(item.starts_at)
    /\ IsDatetimeText(item.ends_at)
    /\ item.total_price # NULL
    /\ IsDatetimeText(item.created_at)
    /\ (item.cancelled_at = NULL \/ IsDatetimeText(item.cancelled_at))

Reservation(item) ==
    [id |-> item.id,
     court_id |-> item.court_id,
     user_id |-> item.user_id,
     starts_at |-> ParseDatetime(item.starts_at),
     ends_at |-> ParseDatetime(item.ends_at),
     total_price |-> item.total_price,
     created_at |-> ParseDatetime(item.created_at),
     cancelled_at |-> ParseOptionalDatetime(item.cancelled_at),
     cancel_reason |-> ParseOptionalStr(item.cancel_reason)]

\* Assignment to an attribute of a model instance: a name that is no field of
\* the model raises ValueError and leaves the instance as it was.
SetAttrRaises(name) == name \notin ReservationFields

SetAttr(obj, name, value) ==
    IF SetAttrRaises(name)
    THEN obj
    ELSE [f \in (DOMAIN obj) \cup {name} |-> IF f = name THEN value ELSE obj[f]]

\* ------------------------------------------- the backend (row store)
\* The hosted backend: the identity endpoint, the reservations table under
\* its row-level authorization policy, and the courts table.

\* The user a bearer token authenticates, NULL for a token that is no JWT.
TokenUser(tok) ==
    IF tok = "jwt-u1" THEN "u1" ELSE IF tok = "jwt-u2" THEN "u2" ELSE NULL

\* Rows present before the service starts: one well-formed reservation and one
\* older row without a price, both owned by u1.
SeedRow ==
    [id |-> "r1", court_id |-> "c1", user_id |-> "u1", starts_at |-> "T02",
     ends_at |-> "T03", total_price |-> "10.0", created_at |-> "T00",
     cancelled_at |-> NULL, cancel_reason |-> NULL]

LegacyRow ==
    [id |-> "r2", court_id |-> "c2", user_id |-> "u1", starts_at |-> "T03",
     ends_at |-> "T04", total_price |-> NULL, created_at |-> "T00",
     cancelled_at |-> NULL, cancel_reason |-> NULL]

\* GET /auth/v1/user: what the identity endpoint may answer for a token.
IdentityResponses(tok) ==
    IF TokenUser(tok) = NULL
    THEN {"non200", "transport"}
    ELSE {"ok", "noid", "non200", "transport"}

\* The "id" member of the identity endpoint's JSON body, NULL when absent.
IdentityJsonId(r, tok) == IF r = "ok" THEN TokenUser(tok) ELSE NULL

\* Rows of the table a token may see (row-level authorization).
Visible(tbl, tok) == SelectSeq(tbl, LAMBDA r : r.user_id = TokenUser(tok))

\* A filter is a record of equalities.
Matches(row, filter) == \A f \in DOMAIN filter : row[f] = filter[f]

RECURSIVE InsertDesc(_, _)
\* rows is ordered by starts_at descending; r goes after the rows that start
\* no earlier than it.
InsertDesc(rows, r) ==
    IF rows = <<>> THEN <<r>>
    ELSE IF ParseDatetime(Head(rows).starts_at) >= ParseDatetime(r.starts_at)
         THEN <<Head(rows)>> \o InsertDesc(Tail(rows), r)
         ELSE <<r>> \o rows

RECURSIVE OrderDesc(_)
\* order("starts_at", desc=True)
OrderDesc(rows) ==
    IF rows = <<>> THEN <<>>
    ELSE InsertDesc(OrderDesc(SubSeq(rows, 1, Len(rows) - 1)), rows[Len(rows)])

\* What a select on reservations may answer: a token that is no JWT is
\* rejected; the transport may fail whatever the token.
SelectOutcomes(tok) ==
    IF TokenUser(tok) = NULL THEN {"api_error", "transport"}
    ELSE {"ok", "api_error", "transport"}

SelectData(tbl, tok) == OrderDesc(Visible(tbl, tok))

\* The row stored for an insert: the backend assigns id, price and created_at.
NewRow(tbl, d, now) ==
    [id |-> RowIdText[Len(tbl) + 1], court_id |-> d.court_id,
     user_id |-> d.user_id, starts_at |-> d.starts_at, ends_at |-> d.ends_at,
     total_price |-> "10.0", created_at |-> IsoFormat(now),
     cancelled_at |-> NULL, cancel_reason |-> NULL]

\* The outcomes of an insert in which the backend stores a row: the stored row
\* is returned as sent ("ok"), returned with a column the backend rewrote
\* ("altered"), returned without a price ("unparseable"), not returned
\* ("no_row"), or the response is lost on the way back ("lost").
InsertStoring == {"ok", "altered", "unparseable", "no_row", "lost"}

InsertApplied(o) == o \in InsertStoring

\* The row the backend stores for outcome o.
StoredRow(tbl, d, now, o) ==
    IF o = "altered" THEN [NewRow(tbl, d, now) EXCEPT !.ends_at = "T09"]
    ELSE IF o = "unparseable" THEN [NewRow(tbl, d, now) EXCEPT !.total_price = NULL]
    ELSE NewRow(tbl, d, now)

\* response.data of the insert.
InsertData(row, o) ==
    IF o \in {"ok", "altered", "unparseable"} THEN <<row>> ELSE <<>>

\* What an insert may answer: the policy rejects a token that is no JWT, a
\* user_id that is no uuid and a user_id other than the caller's, and the
\* transport may fail before the write; nothing is stored then.
InsertOutcomes(tbl, tok, d, now) ==
    IF \/ TokenUser(tok) = NULL
       \/ ~IsUuidText(d.user_id)
       \/ d.user_id # TokenUser(tok)
    THEN {"api_error", "transport"}
    ELSE {"api_error", "transport"}
         \cup (IF now <= MaxClock /\ Len(tbl) < Len(RowIdText)
               THEN InsertStoring ELSE {})

TimestampColumns == {"starts_at", "ends_at", "created_at", "cancelled_at"}

\* The value stored for an update value: in a timestamp column the text now()
\* is the current time.
EvalValue(f, v, now) ==
    IF f \in TimestampColumns /\ v = "now()" THEN IsoFormat(now) ELSE v

UpdatedRow(row, values, now) ==
    [f \in DOMAIN row |->
        IF f \in DOMAIN values THEN EvalValue(f, values[f], now) ELSE row[f]]

\* Indexes of the rows an update by tok under filter touches.
Affected(tbl, tok, filter) ==
    {i \in 1 .. Len(tbl) : tbl[i].user_id = TokenUser(tok) /\ Matches(tbl[i], filter)}

UpdateTable(tbl, tok, filter, values, now) ==
    [i \in 1 .. Len(tbl) |->
        IF i \in Affected(tbl, tok, filter)
        THEN UpdatedRow(tbl[i], values, now) ELSE tbl[i]]

\* An update is stored when it is answered ("ok") or its response is lost on
\* the way back ("lost"), and it touches a row.
UpdateApplied(tbl, tok, filter, o) ==
    o \in {"ok", "lost"} /\ Affected(tbl, tok, filter) # {}

\* What an update may answer: a token that is no JWT and an id filter that is
\* no uuid are rejected; the transport may fail whatever the token.
UpdateOutcomes(tbl, tok, filter, now) ==
    IF TokenUser(tok) = NULL \/ ~IsUuidText(filter.id)
    THEN {"api_error", "transport"}
    ELSE {"api_error", "transport"}
         \cup (IF Affected(tbl, tok, filter) = {} THEN {"ok"}
               ELSE IF now <= MaxClock THEN {"ok", "lost"} ELSE {})

\* The backend's message for a rejected call.
ApiMessage(tok) ==
    IF TokenUser(tok) = NULL THEN "JWT is malformed" ELSE "rejected by the backend"

\* select id, name, sport, facility_id from courts
CourtSummary(court_id) ==
    [id |-> court_id, name |-> "Court", sport |-> "tennis", facility_id |-> "f1"]

\* What the single-row courts lookup may do: data, no data, or raise.
LookupOutcomes == {"data", "none", "error"}

\* ------------------------------ app/supabase_client.py (not in src/)
\* user_supabase_client(token): returns a client that forwards the token on
\* every call; the token is not inspected here, the backend judges it.  The
\* handlers' paths for a factory that raises are kept ("raise").
ClientFactoryOutcomes(tok) == {"client"}

\* ---------------------------------------------- app/main.py: results
\* The outcome of a block of handler code: a returned response, or a raised
\* exception (APIError, HTTPException with its status, or another Exception).
Returned(status, body) ==
    [exc |-> "none", status |-> status, body |-> body, detail |-> NULL]

Raised(exc, status, detail) ==
    [exc |-> exc, status |-> status, body |-> <<>>, detail |-> detail]

\* The answer of a table call as the handler sees it.
Call(outcome, data, message) ==
    [outcome |-> outcome, data |-> data, message |-> message]

\* execute(): a rejected call raises APIError, a transport that fails before
\* the write or loses the response after it another exception.
ExecuteRaises(call) == call.outcome \in {"api_error", "transport", "lost"}

ExecuteRaised(call) ==
    IF call.outcome = "api_error"
    THEN Raised("APIError", 0, call.message)
    ELSE Raised("Exception", 0, "connection failed")

\* str(e) of an APIError: the text of the backend's error object, of which
\* e.message is one member.
StrApiError(message) ==
    IF message = "JWT is malformed"
    THEN "{'message': 'JWT is malformed', 'code': 'PGRST301', 'hint': None, 'details': None}"
    ELSE "{'message': 'rejected by the backend', 'code': 'PGRST301', 'hint': None, 'details': None}"

\* f"Supabase error: {e.message}"
SupabaseErrorText(message) ==
    IF message = "JWT is malformed"
    THEN "Supabase error: JWT is malformed"
    ELSE "Supabase error: rejected by the backend"

\* str(e): of an HTTPException "<status>: <detail>", of an APIError the text
\* of its error object, of another exception its message.
StrException(r) ==
    IF r.exc = "HTTPException" /\ r.status = 404
    THEN "404: Reservation not found"
    ELSE IF r.exc = "HTTPException" /\ r.status = 500
    THEN "500: Failed to create reservation"
    ELSE IF r.exc = "APIError" THEN StrApiError(r.detail)
    ELSE r.detail

\* An exception no handler code catches: the framework answers 500.
Unhandled == Raised("HTTPException", 500, "Internal Server Error")

\* ------------------------------------------------ create_reservation
\* The identity call: anything but a 200 response raises 401.
ResolveRaises(r) == r \notin {"ok", "noid"}

ResolveRaised == Raised("HTTPException", 401, "Invalid authentication token")

\* user_json.get("id")
ResolvedUserId(r, tok) == IdentityJsonId(r, tok)

\* Mutation: ends_at is taken from the payload's start.
CreateReservationDataStartTwice(p, user_id) ==
    [court_id |-> Str(p.court_id),
     user_id |-> Str(user_id),
     starts_at |-> IsoFormat(p.starts_at),
     ends_at |-> IsoFormat(p.starts_at)]

CreateReservationData(p, user_id) ==
    [court_id |-> Str(p.court_id),
     user_id |-> Str(user_id),
     starts_at |-> IsoFormat(p.starts_at),
     ends_at |-> IsoFormat(p.ends_at)]

CreateTry(call) ==
    IF ExecuteRaises(call) THEN ExecuteRaised(call)
    ELSE IF call.data = <<>>
    THEN Raised("HTTPException", 500, "Failed to create reservation")
    ELSE IF ~ReservationValid(call.data[1])
    THEN Raised("Exception", 0, "validation error")
    ELSE Returned(201, <<Reservation(call.data[1])>>)

\* Mutation: the catch-all clause comes first and takes the APIError too.
CreateExceptCatchAllFirst(r) ==
    IF r.exc = "HTTPException" THEN r
    ELSE IF r.exc \in {"APIError", "Exception"}
    THEN Raised("HTTPException", 500, StrException(r))
    ELSE r

CreateExcept(r) ==
    IF r.exc = "APIError" THEN Raised("HTTPException", 400, r.detail)
    ELSE IF r.exc = "HTTPException" THEN r
    ELSE IF r.exc = "Exception" THEN Raised("HTTPException", 500, StrException(r))
    ELSE r

CreateResponse(call) == CreateExcept(CreateTry(call))

\* ------------------------------------------------ cancel_reservation
\* Mutation: the update also ends the reservation at the time of cancellation.
CancelUpdateValuesEndsNow(reason) ==
    [cancelled_at |-> "now()", cancel_reason |-> reason, ends_at |-> "now()"]

CancelUpdateValues(reason) == [cancelled_at |-> "now()", cancel_reason |-> reason]

\* Mutation: the update is restricted to reservations that are still active.
CancelFilterActiveOnly(rid) == [id |-> rid, cancelled_at |-> NULL]

CancelFilter(rid) == [id |-> rid]

CancelTry(call) ==
    IF ExecuteRaises(call) THEN ExecuteRaised(call)
    ELSE IF call.data = <<>>
    THEN Raised("HTTPException", 404, "Reservation not found")
    ELSE Returned(200, <<call.data[1]>>)

\* HTTPException is an Exception: the second clause takes the 404 too.
CancelExcept(r) ==
    IF r.exc = "APIError" THEN Raised("HTTPException", 400, StrException(r))
    ELSE IF r.exc \in {"HTTPException", "Exception"}
    THEN Raised("HTTPException", 500, StrException(r))
    ELSE r

CancelResponse(call) == CancelExcept(CancelTry(call))

\* --------------------------------------------- get_user_reservations
\* The inner try of the loop: the lookup, then the assignment of its data to
\* reservation.court; any exception is logged and the row kept as parsed.
CourtLookupRaises(lookup) ==
    lookup = "error" \/ (lookup = "data" /\ SetAttrRaises("court"))

CourtLookup(reservation, item, lookup) ==
    IF lookup = "data" /\ ~CourtLookupRaises(lookup)
    THEN SetAttr(reservation, "court", CourtSummary(Str(item.court_id)))
    ELSE reservation

\* Mutation: no inner try, so a raising lookup is caught by the row's outer
\* handler and the row is skipped.
EnrichRowNoInnerTry(item, lookup) ==
    IF ~ReservationValid(item) \/ CourtLookupRaises(lookup) THEN <<>>
    ELSE <<CourtLookup(Reservation(item), item, lookup)>>

\* One turn of the loop: what it appends to enriched_reservations.
EnrichRow(item, lookup) ==
    IF ~ReservationValid(item) THEN <<>>
    ELSE <<CourtLookup(Reservation(item), item, lookup)>>

RECURSIVE Enrich(_, _)
Enrich(data, lookups) ==
    IF data = <<>> THEN <<>>
    ELSE EnrichRow(Head(data), Head(lookups)) \o Enrich(Tail(data), Tail(lookups))

RECURSIVE LookupChoices(_)
\* The lookups the loop makes for data: none for a row that does not parse.
LookupChoices(data) ==
    IF data = <<>> THEN {<<>>}
    ELSE {<<h>> \o t :
            h \in (IF ReservationValid(Head(data)) THEN LookupOutcomes
                   ELSE {"skipped"}),
            t \in LookupChoices(Tail(data))}

ListSelectTry(call) ==
    IF ExecuteRaises(call) THEN ExecuteRaised(call)
    ELSE Returned(200, <<>>)

ListExcept(r) ==
    IF r.exc = "APIError"
    THEN Raised("HTTPException", 400, SupabaseErrorText(r.detail))
    ELSE IF r.exc \in {"HTTPException", "Exception"}
    THEN Raised("HTTPException", 500, StrException(r))
    ELSE r

\* Mutation: no per-row try, so a row that does not parse fails the request.
ListResponseParseFatal(data, lookups) ==
    IF \E i \in 1 .. Len(data) : ~ReservationValid(data[i])
    THEN ListExcept(Raised("Exception", 0, "validation error"))
    ELSE ListExcept(Returned(200, Enrich(data, lookups)))

ListResponse(data, lookups) == ListExcept(Returned(200, Enrich(data, lookups)))

\* -------------------------------------------------------------- state
VARIABLES
    table,  \* the reservations table of the backend, in insertion order
    clock,  \* the backend's current time
    req,    \* per slot: a create request between its identity call and its insert
    last    \* the request that has just completed, with its response

vars == <<table, clock, req, last>>

NoPayload == [court_id |-> NULL, starts_at |-> 0, ends_at |-> 0]

NoData == [court_id |-> NULL, user_id |-> NULL, starts_at |-> NULL, ends_at |-> NULL]

\* No request.  identity, sent, outcome, data, prior, lookups, wrote and
\* applied record what the request's outbound calls were, what they answered
\* and whether the backend stored the write.
Idle ==
    [op |-> "none", pc |-> "idle", token |-> NULL, payload |-> NoPayload,
     rid |-> NULL, reason |-> NULL, user_id |-> NULL,
     identity |-> "none", sent |-> NoData, outcome |-> "none", data |-> <<>>,
     prior |-> <<>>,
     lookups |-> <<>>, wrote |-> FALSE, applied |-> FALSE,
     status |-> 0, body |-> <<>>, detail |-> NULL]

Init ==
    /\ table = <<SeedRow, LegacyRow>>
    /\ clock = 1
    /\ req = [s \in Slots |-> Idle]
    /\ last = Idle

\* The response of the request that completed has been sent: the next
\* outbound call of any request comes after it.
Sent == last.pc = "idle"

\* The handler ends with result r (a returned response or an HTTPException).
Respond(q, r) ==
    [q EXCEPT !.pc = "done", !.status = r.status, !.body = r.body,
              !.detail = r.detail]

\* ----------------------------------------------------------- create
\* POST /, up to the insert: the scoped client is built (a refusal is answered
\* 401), then the identity endpoint answers r.
CreateResolve(s, tok, p, f, r) ==
    /\ Sent
    /\ req[s].pc = "idle"
    /\ f \in ClientFactoryOutcomes(tok)
    /\ r \in IdentityResponses(tok)
    /\ LET q == [Idle EXCEPT !.op = "create", !.token = tok, !.payload = p]
           q1 == [q EXCEPT !.identity = r]
       IN IF f = "raise"
          THEN /\ last' = Respond(q, Raised("HTTPException", 401,
                                            "Invalid authentication token"))
               /\ UNCHANGED req
          ELSE IF ResolveRaises(r)
          THEN /\ last' = Respond(q1, ResolveRaised)
               /\ UNCHANGED req
          ELSE /\ req' = [req EXCEPT ![s] =
                            [q1 EXCEPT !.pc = "insert",
                                       !.user_id = ResolvedUserId(r, tok)]]
               /\ UNCHANGED last
    /\ UNCHANGED <<table, clock>>

\* The insert is issued and the backend answers o.
CreateInsert(s, o) ==
    LET q == req[s]
        d == CreateReservationData(q.payload, q.user_id)
        row == StoredRow(table, d, clock, o)
        call == Call(o, InsertData(row, o), ApiMessage(q.token))
    IN /\ Sent
       /\ q.pc = "insert"
       /\ o \in InsertOutcomes(table, q.token, d, clock)
       /\ table' = IF InsertApplied(o) THEN Append(table, row) ELSE table
       /\ clock' = IF InsertApplied(o) THEN clock + 1 ELSE clock
       /\ last' = Respond([q EXCEPT !.outcome = o, !.data = call.data,
                                    !.sent = d, !.wrote = TRUE,
                                    !.applied = InsertApplied(o)],
                          CreateResponse(call))
       /\ req' = [req EXCEPT ![s] = Idle]

\* ----------------------------------------------------------- cancel
\* PUT /{reservation_id}?reason=: the scoped client is built outside the try,
\* then the update is issued and the backend answers o.
CancelReservation(tok, rid, reason, f, o) ==
    LET q == [Idle EXCEPT !.op = "cancel", !.token = tok, !.rid = rid,
                          !.reason = reason]
        filter == CancelFilter(rid)
        values == CancelUpdateValues(reason)
        hit == Affected(table, tok, filter)
        after == UpdateTable(table, tok, filter, values, clock)
        applies == UpdateApplied(table, tok, filter, o)
        pick(tbl) == SelectSeq(tbl, LAMBDA r : \E i \in hit : tbl[i].id = r.id)
        call == Call(o, IF o = "ok" THEN pick(after) ELSE <<>>, ApiMessage(tok))
    IN /\ Sent
       /\ f \in ClientFactoryOutcomes(tok)
       /\ IF f = "raise"
          THEN /\ last' = Respond(q, Unhandled)
               /\ UNCHANGED <<table, clock>>
          ELSE /\ o \in UpdateOutcomes(table, tok, filter, clock)
               /\ table' = IF applies THEN after ELSE table
               /\ clock' = IF applies THEN clock + 1 ELSE clock
               /\ last' = Respond([q EXCEPT !.outcome = o, !.data = call.data,
                                            !.prior = IF o = "ok" THEN pick(table)
                                                      ELSE <<>>,
                                            !.wrote = TRUE, !.applied = applies],
                                  CancelResponse(call))
       /\ UNCHANGED req

\* The lookups a list request by tok makes when its select is answered o.
ListLookups(tok, f, o) ==
    IF f = "client" /\ o = "ok"
    THEN LookupChoices(SelectData(table, tok)) ELSE {<<>>}

\* ------------------------------------------------------------- list
\* GET /: both clients are built outside the try; the select is answered o
\* (no rows ends the request with the empty list), then the loop runs over the
\* rows with the courts lookups answering l.
GetUserReservations(tok, f, o) ==
    \E l \in ListLookups(tok, f, o) :
    LET q == [Idle EXCEPT !.op = "list", !.token = tok]
        data == IF o = "ok" THEN SelectData(table, tok) ELSE <<>>
        call == Call(o, data, ApiMessage(tok))
        q1 == [q EXCEPT !.outcome = o, !.data = data]
    IN /\ Sent
       /\ f \in ClientFactoryOutcomes(tok)
       /\ IF f = "raise"
          THEN /\ l = <<>>
               /\ last' = Respond(q, Unhandled)
          ELSE /\ o \in SelectOutcomes(tok)
               /\ IF ExecuteRaises(call) \/ data = <<>>
                  THEN /\ l = <<>>
                       /\ last' = Respond(q1, ListExcept(ListSelectTry(call)))
                  ELSE /\ l \in LookupChoices(data)
                       /\ last' = Respond([q1 EXCEPT !.lookups = l],
                                          ListResponse(data, l))
       /\ UNCHANGED <<table, clock, req>>

\* The response is sent to the client.
Finish ==
    /\ ~Sent
    /\ last' = Idle
    /\ UNCHANGED <<table, clock, req>>

Next ==
    \/ \E s \in Slots, tok \in Tokens, p \in Payloads :
          \E f \in ClientFactoryOutcomes(tok), r \in IdentityResponses(tok) :
             CreateResolve(s, tok, p, f, r)
    \/ \E s \in Slots, o \in InsertStoring \cup {"api_error", "transport"} :
          CreateInsert(s, o)
    \/ \E tok \in Tokens, rid \in ReservationIds, reason \in Reasons :
          \E f \in ClientFactoryOutcomes(tok),
             o \in {"ok", "lost", "api_error", "transport"} :
             CancelReservation(tok, rid, reason, f, o)
    \/ \E tok \in Tokens :
          \E f \in ClientFactoryOutcomes(tok), o \in SelectOutcomes(tok) :
             GetUserReservations(tok, f, o)
    \/ Finish

Spec == Init /\ [][Next]_vars

\* ------------------------------------------------------------- claims
Done(op) == last.pc = "done" /\ last.op = op

\* The list request that completed got rows from its select.
ListedRows == Done("list") /\ last.outcome = "ok"

\* The rows of data that parse, as Reservations, in the order of data.
ParsedRows(data) ==
    LET ok == SelectSeq(data, ReservationValid)
    IN [j \in 1 .. Len(ok) |-> Reservation(ok[j])]

\* r carries the fields of reservation m with the same values.
SameReservation(r, m) == \A f \in ReservationFields : r[f] = m[f]

\* C1: a cancel whose update affects zero rows (no such id, or a row of
\* another user) is answered 404.
C1_CancelZeroRowsIs404 ==
    (Done("cancel") /\ last.outcome = "ok" /\ last.data = <<>>)
        => last.status = 404

\* C2: a create or cancel whose bearer token is malformed is answered 401 and
\* has issued no insert or update before that response.
C2_MalformedTokenIs401BeforeWrite ==
    ((Done("create") \/ Done("cancel")) /\ TokenUser(last.token) = NULL)
        => (last.status = 401 /\ ~last.wrote)

\* C3: create issues its insert only after the identity endpoint yielded the
\* caller's user id; any other answer of the endpoint ends in 401, no insert.
C3_InsertOnlyWithResolvedIdentity ==
    /\ \A s \in Slots :
          req[s].pc = "insert" => (req[s].identity = "ok" /\ req[s].user_id # NULL)
    /\ (Done("create") /\ last.identity # "ok")
          => (last.status = 401 /\ ~last.wrote)
    /\ (Done("create") /\ last.wrote)
          => (last.identity = "ok" /\ last.user_id = TokenUser(last.token))

\* The row the insert returned carries the court and the times it was sent.
ReturnedAsSent ==
    /\ Len(last.data) >= 1
    /\ last.data[1].court_id = last.sent.court_id
    /\ last.data[1].starts_at = last.sent.starts_at
    /\ last.data[1].ends_at = last.sent.ends_at

\* C4: create ends either in 201 with the Reservation parsed from the first
\* row the backend returned, whose court_id, starts_at and ends_at are the
\* payload's whenever that row carries the values the insert sent, or in 400,
\* 401 or 500 without a body; it never ends in 200 or 204.
C4_CreateOutcomeAmended ==
    Done("create") =>
        \/ /\ last.status = 201
           /\ Len(last.data) >= 1
           /\ last.body = <<Reservation(last.data[1])>>
           /\ DOMAIN last.body[1] = ReservationFields
           /\ ReturnedAsSent =>
                 /\ last.body[1].court_id = last.payload.court_id
                 /\ last.body[1].starts_at = last.payload.starts_at
                 /\ last.body[1].ends_at = last.payload.ends_at
        \/ /\ last.status \in {400, 401, 500}
           /\ last.body = <<>>

\* C4 as first stated: create ends either in 201 with a Reservation whose
\* court_id, starts_at and ends_at are the payload's, whatever the backend
\* does, or in 400, 401 or 500 without a body.
C4_CreateOutcome ==
    Done("create") =>
        \/ /\ last.status = 201
           /\ Len(last.body) = 1
           /\ DOMAIN last.body[1] = ReservationFields
           /\ last.body[1].court_id = last.payload.court_id
           /\ last.body[1].starts_at = last.payload.starts_at
           /\ last.body[1].ends_at = last.payload.ends_at
        \/ /\ last.status \in {400, 401, 500}
           /\ last.body = <<>>

C4_Witness ==
    /\ Done("create")
    /\ last.status = 201
    /\ last.payload.court_id = "c2"
    /\ ReturnedAsSent
    /\ last.body[1].starts_at # last.body[1].ends_at

\* C5: in create, an insert that returns no row is answered 500 with the
\* handler's own message, and an insert the backend rejects is answered 400
\* with the backend's message.
C5_CreateInsertErrors ==
    /\ (Done("create") /\ last.outcome = "no_row")
          => (last.status = 500 /\ last.detail = "Failed to create reservation")
    /\ (Done("create") /\ last.outcome = "api_error")
          => (last.status = 400 /\ last.detail = ApiMessage(last.token))

C5_Witness ==
    /\ Done("create")
    /\ last.outcome = "no_row"
    /\ last.status = 500

\* C6: in list, whatever the courts lookups do, the request succeeds and every
\* row that parses is in the response, once.
C6_EnrichmentNeverDropsRows ==
    ListedRows =>
        /\ last.status = 200
        /\ \A i \in 1 .. Len(last.data) :
              ReservationValid(last.data[i]) =>
                 Cardinality({j \in 1 .. Len(last.body) :
                                 last.body[j].id = last.data[i].id}) = 1

C6_Witness ==
    /\ ListedRows
    /\ \E i, k \in 1 .. Len(last.data) :
          /\ last.lookups[i] = "error"
          /\ last.lookups[k] = "none"
    /\ Len(last.body) = 2

\* C7: a list whose select succeeds returns a sequence (empty for no rows)
\* holding exactly the rows that parse, in the backend's order, so start times
\* never increase along it.
C7_ListIsParsedSubsequence ==
    ListedRows =>
        /\ last.status = 200
        /\ Len(last.body) = Len(ParsedRows(last.data))
        /\ \A j \in 1 .. Len(last.body) :
              SameReservation(last.body[j], ParsedRows(last.data)[j])
        /\ \A j \in 1 .. Len(last.body) - 1 :
              last.body[j].starts_at >= last.body[j + 1].starts_at

C7_Witness ==
    /\ ListedRows
    /\ Len(last.data) = 3
    /\ ~ReservationValid(last.data[2])
    /\ Len(last.body) = 2
    /\ last.body[1].starts_at > last.body[2].starts_at

\* C8: in list, a parsed reservation whose courts lookup returned data carries
\* that court summary in its court field; the field is absent otherwise.
C8_CourtAttached ==
    ListedRows =>
        \A i \in 1 .. Len(last.data), j \in 1 .. Len(last.body) :
            last.body[j].id = last.data[i].id =>
                IF last.lookups[i] = "data"
                THEN /\ "court" \in DOMAIN last.body[j]
                     /\ last.body[j].court = CourtSummary(last.body[j].court_id)
                ELSE "court" \notin DOMAIN last.body[j]

ImmutableFields ==
    {"id", "court_id", "user_id", "starts_at", "ends_at", "total_price",
     "created_at"}

\* One step keeps every row and its immutable fields, changes the table only
\* in a create or cancel that is answered with success, adds rows only in a
\* create, and leaves a cancelled row cancelled.
LifecycleStep ==
    /\ Len(table') >= Len(table)
    /\ \A i \in 1 .. Len(table) :
          /\ \A f \in ImmutableFields : table'[i][f] = table[i][f]
          /\ table[i].cancelled_at # NULL => table'[i].cancelled_at # NULL
    /\ table' # table =>
          /\ last'.pc = "done"
          /\ last'.op \in {"create", "cancel"}
          /\ last'.status \in {200, 201}
    /\ Len(table') > Len(table) => last'.op = "create"
    /\ (last'.pc = "done" /\ (last'.op = "list" \/ last'.status >= 400))
          => table' = table

\* C9 as first stated: over any interleaving of list, create and cancel, no
\* row is deleted, id, court_id, user_id, starts_at, ends_at, total_price and
\* created_at never change, list requests and requests that end in an error
\* leave the table unchanged, and a cancelled reservation never becomes active
\* again.
C9_Lifecycle == [][LifecycleStep]_vars

\* The answers of the backend after which a stored write is answered 500: an
\* insert that returns no row or a row that does not parse, and a response
\* lost after the write.
StoredThenFailed == {"no_row", "unparseable", "lost"}

\* One step keeps every row and its immutable fields, leaves a cancelled row
\* cancelled, adds rows only in a create, changes the table only in a create
\* or cancel whose write the backend stored, and then answers 200, 201 or,
\* after one of the answers of StoredThenFailed, 500; a list and a request
\* answered 400, 401 or 404 leave the table unchanged, and so does a request
\* answered 500 after any other answer of the backend.
LifecycleStepAmended ==
    /\ Len(table') >= Len(table)
    /\ \A i \in 1 .. Len(table) :
          /\ \A f \in ImmutableFields : table'[i][f] = table[i][f]
          /\ table[i].cancelled_at # NULL => table'[i].cancelled_at # NULL
    /\ table' # table =>
          /\ last'.pc = "done"
          /\ last'.op \in {"create", "cancel"}
          /\ last'.status \in {200, 201, 500}
          /\ last'.status = 500 <=> last'.outcome \in StoredThenFailed
    /\ Len(table') > Len(table) => last'.op = "create"
    /\ (last'.pc = "done" /\ (\/ last'.op = "list"
                              \/ last'.status \in {400, 401, 404}
                              \/ /\ last'.status = 500
                                 /\ last'.outcome \notin StoredThenFailed))
          => table' = table

\* C9: over any interleaving of list, create and cancel, no row is deleted,
\* the immutable fields never change, a cancelled reservation never becomes
\* active again, and list requests and requests that end in an error leave the
\* table unchanged, except that a write the backend stored before the failure
\* (an insert returning no row or an unparseable row, a lost response) stays
\* stored although the request is answered 500.
C9_LifecycleAmended == [][LifecycleStepAmended]_vars

C9_Witness ==
    /\ Len(table) = 3
    /\ table[1].cancelled_at # NULL
    /\ Done("create")
    /\ last.outcome = "no_row"
    /\ last.applied
    /\ last.status = 500

\* C10: cancel is filtered by id alone: a cancel the backend applies to a row
\* of the caller succeeds whatever the row's state, and leaves its own time and
\* reason stored, replacing those of an earlier cancel.
C10_CancelOverwrites ==
    (Done("cancel") /\ last.outcome = "ok") =>
        \A i \in 1 .. Len(table) :
            (table[i].id = last.rid /\ table[i].user_id = TokenUser(last.token)) =>
                /\ last.applied
                /\ last.status = 200
                /\ last.body = <<table[i]>>
                /\ table[i].cancel_reason = last.reason
                /\ table[i].cancelled_at = IsoFormat(clock - 1)

C10_Witness ==
    /\ Done("cancel")
    /\ last.status = 200
    /\ Len(last.prior) = 1
    /\ last.prior[1].cancelled_at # NULL
    /\ last.prior[1].cancel_reason # last.reason
    /\ last.body[1].cancel_reason = last.reason
    /\ last.body[1].cancelled_at # last.prior[1].cancelled_at

====
